---- MODULE Spec2Model ----
(***************************************************************************)
(* AccelScript front-end: the AST node model (src/src/parser.hpp) and the  *)
(* tree builder (src/src/parser.cpp).  Source text is modelled by real     *)
(* strings; offsets are code-unit indices counted from 0.                  *)
(***************************************************************************)
EXTENDS Integers, Sequences, FiniteSets, TLC

(* ---------------------------- bounds ----------------------------------- *)
MaxParams == 2
MaxWs == 1
NumThreads == 2

(* ----------------------- sample vocabulary ----------------------------- *)
ShaderTypes == {"compute", "vertex", "fragment"}
Identifiers == {"Add", "Vertex"}
ParamNames == {"input1", "output"}
TypeTexts == {"vec3", "Buffer<f32>"}
Bodies == {"", "position:vec3;"}

RECURSIVE SeqsUpTo(_, _)
SeqsUpTo(S, n) ==
    IF n = 0 THEN {<<>>}
    ELSE LET shorter == SeqsUpTo(S, n - 1)
         IN shorter \cup {Append(s, x) : s \in {t \in shorter : Len(t) = n - 1}, x \in S}

ParamDecls == [name : ParamNames, type : TypeTexts]

(* A program is one top-level construct surrounded by optional whitespace. *)
StructPrograms ==
    [kind : {"structDeclaration"}, keyword : {"struct"}, name : Identifiers,
     hasParams : {FALSE}, params : {<<>>}, hasRet : {FALSE}, ret : {""},
     body : Bodies, lead : 0..MaxWs, trail : 0..MaxWs]

ShaderPrograms ==
    {p \in [kind : {"shaderDeclaration"}, keyword : ShaderTypes, name : Identifiers,
            hasParams : BOOLEAN, params : SeqsUpTo(ParamDecls, MaxParams),
            hasRet : BOOLEAN, ret : TypeTexts \cup {""},
            body : Bodies, lead : 0..MaxWs, trail : 0..MaxWs] :
        /\ (~p.hasParams => p.params = <<>>)
        /\ (p.hasRet <=> p.ret # "")}

OtherPrograms ==
    [kind : {"importDeclaration"}, keyword : {"import"}, name : Identifiers,
     hasParams : {FALSE}, params : {<<>>}, hasRet : {FALSE}, ret : {""},
     body : {""}, lead : 0..MaxWs, trail : 0..MaxWs]
    \cup
    [kind : {"functionDeclaration"}, keyword : {"fn"}, name : Identifiers,
     hasParams : {TRUE}, params : {<<>>}, hasRet : {FALSE}, ret : {""},
     body : {""}, lead : 0..MaxWs, trail : 0..MaxWs]

(* a program with no top-level construct at all *)
EmptyPrograms ==
    [kind : {"empty"}, keyword : {""}, name : {""},
     hasParams : {FALSE}, params : {<<>>}, hasRet : {FALSE}, ret : {""},
     body : {""}, lead : 0..MaxWs, trail : {0}]

Programs == StructPrograms \cup ShaderPrograms \cup OtherPrograms \cup EmptyPrograms

(* ------------------- external lexer / parser engine -------------------- *)
RECURSIVE Ws(_)
Ws(n) == IF n = 0 THEN "" ELSE " " \o Ws(n - 1)

Tok(text) == [text |-> text, hidden |-> FALSE]
Hid(text) == [text |-> text, hidden |-> TRUE]

RECURSIVE ParamLexemes(_, _)
ParamLexemes(params, i) ==
    IF i > Len(params) THEN <<>>
    ELSE (IF i > 1 THEN <<Tok(","), Hid(" ")>> ELSE <<>>)
         \o <<Tok(params[i].name), Tok(":"), Hid(" "), Tok(params[i].type)>>
         \o ParamLexemes(params, i + 1)

HeaderLexemes(p) ==
    <<Tok(p.keyword), Hid(" "), Tok(p.name)>>
    \o (IF p.hasParams THEN <<Tok("(")>> \o ParamLexemes(p.params, 1) \o <<Tok(")")>>
        ELSE <<>>)
    \o (IF p.hasRet THEN <<Hid(" "), Tok("->"), Hid(" "), Tok(p.ret)>> ELSE <<>>)

BodyLexemes(p) ==
    IF p.kind = "importDeclaration" THEN <<Tok(";")>>
    ELSE <<Hid(" "), Tok("{")>>
         \o (IF p.body = "" THEN <<>> ELSE <<Tok(p.body)>>)
         \o <<Tok("}")>>

DeclLexemes(p) ==
    IF p.kind = "empty" THEN <<>> ELSE HeaderLexemes(p) \o BodyLexemes(p)

Lexemes(p) ==
    (IF p.lead > 0 THEN <<Hid(Ws(p.lead))>> ELSE <<>>)
    \o DeclLexemes(p)
    \o (IF p.trail > 0 THEN <<Hid(Ws(p.trail))>> ELSE <<>>)

RECURSIVE Concat(_, _)
Concat(lexs, n) == IF n = 0 THEN "" ELSE Concat(lexs, n - 1) \o lexs[n].text

(* the source text handed to parse *)
SourceText(p) == Concat(Lexemes(p), Len(Lexemes(p)))
(* the text of the declaration alone, first token through last token *)
DeclText(p) == Concat(DeclLexemes(p), Len(DeclLexemes(p)))

(* tokens on the default channel, each with its inclusive offsets *)
Lex(lexs) ==
    LET all == [k \in 1..Len(lexs) |->
                  [text |-> lexs[k].text, hidden |-> lexs[k].hidden,
                   startIndex |-> Len(Concat(lexs, k - 1)),
                   stopIndex |-> Len(Concat(lexs, k)) - 1]]
        shown == SelectSeq(all, LAMBDA t : ~t.hidden)
    IN [k \in 1..Len(shown) |->
          [text |-> shown[k].text, startIndex |-> shown[k].startIndex,
           stopIndex |-> shown[k].stopIndex]]

(* parse tree of a declaration: the accessors the builder uses *)
declaration(p, toks) ==
    [kind |-> p.kind,
     shaderType |-> toks[1].text,
     Identifier |-> toks[2].text,
     parameterList |->
         [present |-> p.hasParams,
          parameter |-> [i \in 1..Len(p.params) |->
                           [Identifier |-> p.params[i].name,
                            typeSpecifier |-> p.params[i].type]]],
     typeSpecifier |-> [present |-> p.hasRet, text |-> p.ret],
     hasBody |-> p.body # "",
     start |-> toks[1],
     stop |-> toks[Len(toks)],
     children |-> <<>>]

(* parser.program(): the root production and its top-level constructs *)
program(p) ==
    LET toks == Lex(Lexemes(p))
    IN [kind |-> "program",
        children |-> IF Len(toks) = 0 THEN <<>> ELSE <<declaration(p, toks)>>]

(* ----------------------------- AST nodes ------------------------------- *)
nullptr == [class |-> "nullptr"]

NewStructDeclaration ==
    [class |-> "StructDeclaration", type |-> "", start |-> 0, end |-> 0,
     name |-> [name |-> ""], body |-> nullptr]

NewShaderDeclaration ==
    [class |-> "ShaderDeclaration", type |-> "", start |-> 0, end |-> 0,
     id |-> [name |-> ""], params |-> <<>>, returnType |-> [name |-> ""],
     body |-> nullptr]

(* dynamic_cast<T*>(ptr): the pointer itself when the object is a T *)
dynamic_cast_Unchecked(T, ptr) == ptr
dynamic_cast(T, ptr) == IF ptr.class = T THEN ptr ELSE nullptr

(* ------------------- statements of the two visitors -------------------- *)
StructSetType(decl, ctx) == [decl EXCEPT !.type = "StructDeclaration"]
StructSetName_Keyword(decl, ctx) == [decl EXCEPT !.name.name = ctx.start.text]
StructSetName(decl, ctx) == [decl EXCEPT !.name.name = ctx.Identifier]
SetStart(decl, ctx) == [decl EXCEPT !.start = ctx.start.startIndex]
SetEnd_Exclusive(decl, ctx) == [decl EXCEPT !.end = ctx.stop.stopIndex + 1]
SetEnd(decl, ctx) == [decl EXCEPT !.end = ctx.stop.stopIndex]

ShaderSetType_NoStage(decl, ctx) == [decl EXCEPT !.type = "ShaderDeclaration"]
ShaderSetType(decl, ctx) == [decl EXCEPT !.type = ctx.shaderType \o "ShaderDeclaration"]
ShaderSetId(decl, ctx) == [decl EXCEPT !.id.name = ctx.Identifier]
PushParam_Front(decl, param) ==
    [decl EXCEPT !.params = <<[name |-> param.Identifier,
                               type |-> param.typeSpecifier]>> \o @]
PushParam(decl, param) ==
    [decl EXCEPT !.params = Append(@, [name |-> param.Identifier,
                                       type |-> param.typeSpecifier])]
ShaderSetReturnType_Skip(decl, ctx) == decl
ShaderSetReturnType(decl, ctx) ==
    IF ctx.typeSpecifier.present
    THEN [decl EXCEPT !.returnType.name = ctx.typeSpecifier.text]
    ELSE decl

RECURSIVE PushParamsFrom(_, _, _)
PushParamsFrom(decl, list, i) ==
    IF i > Len(list) THEN decl
    ELSE PushParamsFrom(PushParam(decl, list[i]), list, i + 1)

ShaderPushParams(decl, ctx) ==
    IF ctx.parameterList.present
    THEN PushParamsFrom(decl, ctx.parameterList.parameter, 1)
    ELSE decl

visitStructDeclaration(ctx) ==
    SetEnd(SetStart(StructSetName(StructSetType(NewStructDeclaration, ctx), ctx), ctx), ctx)

visitShaderDeclaration_DropBody(ctx) ==
    IF ctx.hasBody THEN nullptr
    ELSE SetEnd(SetStart(ShaderSetReturnType(ShaderPushParams(
             ShaderSetId(ShaderSetType(NewShaderDeclaration, ctx), ctx), ctx), ctx), ctx), ctx)

visitShaderDeclaration(ctx) ==
    SetEnd(SetStart(ShaderSetReturnType(ShaderPushParams(
        ShaderSetId(ShaderSetType(NewShaderDeclaration, ctx), ctx), ctx), ctx), ctx), ctx)

(* the inherited visitor: a production without an override visits its      *)
(* children and yields the last child's result, the default result (no     *)
(* node) when it has none                                                  *)
RECURSIVE accept(_)
RECURSIVE visitChildrenFrom(_, _, _)
visitChildrenFrom(node, result, i) ==
    IF i > Len(node.children) THEN result
    ELSE visitChildrenFrom(node, accept(node.children[i]), i + 1)

visitChildren(node) == visitChildrenFrom(node, nullptr, 1)

accept(tree) ==
    CASE tree.kind = "structDeclaration" -> visitStructDeclaration(tree)
      [] tree.kind = "shaderDeclaration" -> visitShaderDeclaration(tree)
      [] OTHER -> visitChildren(tree)

visit(tree) == accept(tree)

parse(code) == visit(program(code))

(* ------------------------ sequential caller ---------------------------- *)
VARIABLES phase, code, ast, cast

seqVars == <<phase, code, ast, cast>>

(* ------------------------ concurrent callers --------------------------- *)
(* One record of locals per invocation of parse, and the heap the objects   *)
(* made by make_unique live in.                                             *)
VARIABLES pc, arg, tree, ctx, decl, it, ret, res, heap

concVars == <<pc, arg, tree, ctx, decl, it, ret, res, heap>>

vars == <<seqVars, concVars>>

Threads == 1..NumThreads
Addrs == 1..NumThreads
Free == [class |-> "free"]
NoTree == [kind |-> "none", children |-> <<>>]

NoCode == [kind |-> "none"]
NoCast == [target |-> "", ptr |-> nullptr]

SeqInit ==
    /\ phase = "idle"
    /\ code = NoCode
    /\ ast = nullptr
    /\ cast = NoCast

ConcInit ==
    /\ pc = [t \in Threads |-> "idle"]
    /\ arg = [t \in Threads |-> NoCode]
    /\ tree = [t \in Threads |-> NoTree]
    /\ ctx = [t \in Threads |-> NoTree]
    /\ decl = [t \in Threads |-> 0]
    /\ it = [t \in Threads |-> 0]
    /\ ret = [t \in Threads |-> 0]
    /\ res = [t \in Threads |-> nullptr]
    /\ heap = [a \in Addrs |-> Free]

Init == SeqInit /\ ConcInit

(* auto ast = parse(code); *)
Parse ==
    /\ phase = "idle"
    /\ \E p \in Programs : code' = p /\ ast' = parse(p)
    /\ phase' = "returned"
    /\ cast' = NoCast
    /\ UNCHANGED concVars

(* auto* d = dynamic_cast<T*>(ast.get()); *)
DynamicCast(T) ==
    /\ phase = "returned"
    /\ cast' = [target |-> T, ptr |-> dynamic_cast(T, ast)]
    /\ UNCHANGED <<phase, code, ast>>
    /\ UNCHANGED concVars

(* the caller lets the returned unique_ptr go out of scope *)
Destroy ==
    /\ phase = "returned"
    /\ phase' = "idle"
    /\ code' = NoCode
    /\ ast' = nullptr
    /\ cast' = NoCast
    /\ UNCHANGED concVars

Next ==
    \/ Parse
    \/ \E T \in {"StructDeclaration", "ShaderDeclaration"} : DynamicCast(T)
    \/ Destroy

Spec == Init /\ [][Next]_vars

(* ---------------- one invocation of parse, step by step ---------------- *)
CanonParams(n) ==
    [i \in 1..n |-> IF i % 2 = 1 THEN [name |-> "input1", type |-> "Buffer<f32>"]
                    ELSE [name |-> "output", type |-> "vec3"]]

(* the inputs of the concurrent callers: a struct, a shader without         *)
(* parameter list and annotation, a shader with both, and two programs      *)
(* without a struct or shader declaration                                   *)
ConcPrograms ==
    {[kind |-> "structDeclaration", keyword |-> "struct", name |-> "Add",
      hasParams |-> FALSE, params |-> <<>>, hasRet |-> FALSE, ret |-> "",
      body |-> "", lead |-> MaxWs, trail |-> 0],
     [kind |-> "importDeclaration", keyword |-> "import", name |-> "Add",
      hasParams |-> FALSE, params |-> <<>>, hasRet |-> FALSE, ret |-> "",
      body |-> "", lead |-> MaxWs, trail |-> 0],
     [kind |-> "empty", keyword |-> "", name |-> "",
      hasParams |-> FALSE, params |-> <<>>, hasRet |-> FALSE, ret |-> "",
      body |-> "", lead |-> MaxWs, trail |-> 0]}
    \cup
    {[kind |-> "shaderDeclaration", keyword |-> "compute", name |-> "Add",
      hasParams |-> n >= 0, params |-> CanonParams(IF n < 0 THEN 0 ELSE n),
      hasRet |-> r # "", ret |-> r,
      body |-> "", lead |-> MaxWs, trail |-> 0] :
        <<n, r>> \in {<<-1, "">>, <<MaxParams, "vec3">>}}

Goto(t, l) == pc' = [pc EXCEPT ![t] = l]
Store(t, obj) == heap' = [heap EXCEPT ![decl[t]] = obj]
Deref(a) == IF a = 0 THEN nullptr ELSE heap[a]

make_unique_Static(h) == 1

(* std::make_unique: storage no live object occupies *)
make_unique(h) == CHOOSE a \in Addrs : h[a] = Free /\ \A b \in Addrs : h[b] = Free => a <= b

Call(t) ==
    /\ pc[t] = "idle"
    /\ \E p \in ConcPrograms : arg' = [arg EXCEPT ![t] = p]
    /\ Goto(t, "program")
    /\ UNCHANGED <<tree, ctx, decl, it, ret, res, heap>>
    /\ UNCHANGED seqVars

ParseTree(t) ==
    /\ pc[t] = "program"
    /\ tree' = [tree EXCEPT ![t] = program(arg[t])]
    /\ Goto(t, "visit")
    /\ UNCHANGED <<arg, ctx, decl, it, ret, res, heap>>
    /\ UNCHANGED seqVars

Overridden(node) == node.kind \in {"structDeclaration", "shaderDeclaration"}

(* visitor.visit(tree): the root has no override; its child is entered when *)
(* it has one, otherwise the inherited default result comes back            *)
Visit(t) ==
    /\ pc[t] = "visit"
    /\ IF Len(tree[t].children) > 0 /\ Overridden(tree[t].children[Len(tree[t].children)])
       THEN /\ ctx' = [ctx EXCEPT ![t] = tree[t].children[Len(tree[t].children)]]
            /\ Goto(t, IF ctx'[t].kind = "structDeclaration" THEN "struct8" ELSE "shader17")
            /\ UNCHANGED <<ret, res>>
       ELSE /\ ret' = [ret EXCEPT ![t] = 0]
            /\ res' = [res EXCEPT ![t] = visit(tree[t])]
            /\ Goto(t, "done")
            /\ UNCHANGED ctx
    /\ UNCHANGED <<arg, tree, decl, it, heap>>
    /\ UNCHANGED seqVars

StructNew(t) ==
    /\ pc[t] = "struct8"
    /\ decl' = [decl EXCEPT ![t] = make_unique(heap)]
    /\ heap' = [heap EXCEPT ![decl'[t]] = NewStructDeclaration]
    /\ Goto(t, "struct9")
    /\ UNCHANGED <<arg, tree, ctx, it, ret, res>>
    /\ UNCHANGED seqVars

StructType(t) ==
    /\ pc[t] = "struct9"
    /\ Store(t, StructSetType(heap[decl[t]], ctx[t]))
    /\ Goto(t, "struct10")
    /\ UNCHANGED <<arg, tree, ctx, decl, it, ret, res>>
    /\ UNCHANGED seqVars

StructName(t) ==
    /\ pc[t] = "struct10"
    /\ Store(t, StructSetName(heap[decl[t]], ctx[t]))
    /\ Goto(t, "struct11")
    /\ UNCHANGED <<arg, tree, ctx, decl, it, ret, res>>
    /\ UNCHANGED seqVars

StructStart(t) ==
    /\ pc[t] = "struct11"
    /\ Store(t, SetStart(heap[decl[t]], ctx[t]))
    /\ Goto(t, "struct12")
    /\ UNCHANGED <<arg, tree, ctx, decl, it, ret, res>>
    /\ UNCHANGED seqVars

StructEnd(t) ==
    /\ pc[t] = "struct12"
    /\ Store(t, SetEnd(heap[decl[t]], ctx[t]))
    /\ Goto(t, "return")
    /\ UNCHANGED <<arg, tree, ctx, decl, it, ret, res>>
    /\ UNCHANGED seqVars

ShaderNew(t) ==
    /\ pc[t] = "shader17"
    /\ decl' = [decl EXCEPT ![t] = make_unique(heap)]
    /\ heap' = [heap EXCEPT ![decl'[t]] = NewShaderDeclaration]
    /\ Goto(t, "shader18")
    /\ UNCHANGED <<arg, tree, ctx, it, ret, res>>
    /\ UNCHANGED seqVars

ShaderType(t) ==
    /\ pc[t] = "shader18"
    /\ Store(t, ShaderSetType(heap[decl[t]], ctx[t]))
    /\ Goto(t, "shader19")
    /\ UNCHANGED <<arg, tree, ctx, decl, it, ret, res>>
    /\ UNCHANGED seqVars

ShaderId(t) ==
    /\ pc[t] = "shader19"
    /\ Store(t, ShaderSetId(heap[decl[t]], ctx[t]))
    /\ Goto(t, "shader22")
    /\ UNCHANGED <<arg, tree, ctx, decl, it, ret, res>>
    /\ UNCHANGED seqVars

ShaderParams(t) ==
    /\ pc[t] = "shader22"
    /\ IF ctx[t].parameterList.present
       THEN /\ it' = [it EXCEPT ![t] = 1]
            /\ Goto(t, "shader23")
       ELSE /\ Goto(t, "shader32")
            /\ UNCHANGED it
    /\ UNCHANGED <<arg, tree, ctx, decl, ret, res, heap>>
    /\ UNCHANGED seqVars

ShaderLoop(t) ==
    /\ pc[t] = "shader23"
    /\ IF it[t] <= Len(ctx[t].parameterList.parameter)
       THEN /\ Store(t, PushParam(heap[decl[t]], ctx[t].parameterList.parameter[it[t]]))
            /\ it' = [it EXCEPT ![t] = @ + 1]
            /\ UNCHANGED pc
       ELSE /\ Goto(t, "shader32")
            /\ UNCHANGED <<it, heap>>
    /\ UNCHANGED <<arg, tree, ctx, decl, ret, res>>
    /\ UNCHANGED seqVars

ShaderReturnType(t) ==
    /\ pc[t] = "shader32"
    /\ Store(t, ShaderSetReturnType(heap[decl[t]], ctx[t]))
    /\ Goto(t, "shader36")
    /\ UNCHANGED <<arg, tree, ctx, decl, it, ret, res>>
    /\ UNCHANGED seqVars

ShaderStart(t) ==
    /\ pc[t] = "shader36"
    /\ Store(t, SetStart(heap[decl[t]], ctx[t]))
    /\ Goto(t, "shader37")
    /\ UNCHANGED <<arg, tree, ctx, decl, it, ret, res>>
    /\ UNCHANGED seqVars

ShaderEnd(t) ==
    /\ pc[t] = "shader37"
    /\ Store(t, SetEnd(heap[decl[t]], ctx[t]))
    /\ Goto(t, "return")
    /\ UNCHANGED <<arg, tree, ctx, decl, it, ret, res>>
    /\ UNCHANGED seqVars

(* return decl; ownership passes to the caller of parse *)
Return(t) ==
    /\ pc[t] = "return"
    /\ ret' = [ret EXCEPT ![t] = decl[t]]
    /\ res' = [res EXCEPT ![t] = heap[decl[t]]]
    /\ decl' = [decl EXCEPT ![t] = 0]
    /\ Goto(t, "done")
    /\ UNCHANGED <<arg, tree, ctx, it, heap>>
    /\ UNCHANGED seqVars

(* the caller lets the returned unique_ptr go out of scope *)
Release(t) ==
    /\ pc[t] = "done"
    /\ heap' = [a \in Addrs |-> IF a = ret[t] THEN Free ELSE heap[a]]
    /\ arg' = [arg EXCEPT ![t] = NoCode]
    /\ tree' = [tree EXCEPT ![t] = NoTree]
    /\ ctx' = [ctx EXCEPT ![t] = NoTree]
    /\ it' = [it EXCEPT ![t] = 0]
    /\ ret' = [ret EXCEPT ![t] = 0]
    /\ res' = [res EXCEPT ![t] = nullptr]
    /\ Goto(t, "idle")
    /\ UNCHANGED decl
    /\ UNCHANGED seqVars

ConcNext ==
    \/ \E t \in Threads : Call(t)
    \/ \E t \in Threads : ParseTree(t)
    \/ \E t \in Threads : Visit(t)
    \/ \E t \in Threads : StructNew(t)
    \/ \E t \in Threads : StructType(t)
    \/ \E t \in Threads : StructName(t)
    \/ \E t \in Threads : StructStart(t)
    \/ \E t \in Threads : StructEnd(t)
    \/ \E t \in Threads : ShaderNew(t)
    \/ \E t \in Threads : ShaderType(t)
    \/ \E t \in Threads : ShaderId(t)
    \/ \E t \in Threads : ShaderParams(t)
    \/ \E t \in Threads : ShaderLoop(t)
    \/ \E t \in Threads : ShaderReturnType(t)
    \/ \E t \in Threads : ShaderStart(t)
    \/ \E t \in Threads : ShaderEnd(t)
    \/ \E t \in Threads : Return(t)
    \/ \E t \in Threads : Release(t)

ConcSpec == Init /\ [][ConcNext]_vars

(* ------------------------------ claims --------------------------------- *)
Built == phase = "returned" /\ ast # nullptr
IsShader == code.kind = "shaderDeclaration"
IsStruct == code.kind = "structDeclaration"

(* C1: a program whose top-level construct is a shader declaration with     *)
(* stage keyword K and identifier N parses to a non-empty ShaderDeclaration *)
(* whose type is K followed by "ShaderDeclaration" and whose id is N.       *)
C1_ShaderKindAndId ==
    (phase = "returned" /\ IsShader) =>
        /\ ast # nullptr
        /\ ast.class = "ShaderDeclaration"
        /\ ast.type = code.keyword \o "ShaderDeclaration"
        /\ ast.id.name = code.name

C1_Witness ==
    /\ Built /\ IsShader
    /\ code.keyword = "vertex" /\ code.name = "Add"
    /\ ast.type = "vertexShaderDeclaration" /\ ast.id.name = "Add"

(* C2: params has one (name, type) entry per declared parameter, in         *)
(* declaration order, with the literal texts; without a parameter list it   *)
(* is the empty sequence.                                                   *)
C2_ParamsInOrder ==
    (phase = "returned" /\ IsShader) =>
        /\ Len(ast.params) = Len(code.params)
        /\ \A i \in 1..Len(code.params) :
              /\ ast.params[i].name = code.params[i].name
              /\ ast.params[i].type = code.params[i].type
        /\ (~code.hasParams => ast.params = <<>>)

C2_Witness ==
    /\ Built /\ IsShader
    /\ Len(code.params) = 2
    /\ code.params[1] = [name |-> "input1", type |-> "vec3"]
    /\ code.params[2] = [name |-> "output", type |-> "Buffer<f32>"]
    /\ ast.params = code.params

C4_StructKindAndName ==
    (phase = "returned" /\ IsStruct) =>
        /\ ast # nullptr
        /\ ast.class = "StructDeclaration"
        /\ ast.type = "StructDeclaration"
        /\ ast.name.name = code.name

C4_Witness ==
    /\ Built /\ IsStruct
    /\ code.name = "Vertex" /\ code.body # ""
    /\ ast.name.name = "Vertex"

(* C5: every produced node spans exactly the declaration's text, first      *)
(* token through last token inclusive, inside the source text.              *)
C5_SpanInvariant ==
    Built =>
        /\ 0 <= ast.start /\ ast.start <= ast.end
        /\ ast.end <= Len(SourceText(code)) - 1
        /\ ast.start = code.lead
        /\ ast.end = Len(SourceText(code)) - code.trail - 1
        /\ SubSeq(SourceText(code), ast.start + 1, ast.end + 1) = DeclText(code)

C5_Witness ==
    /\ Built
    /\ code.lead > 0 /\ code.trail > 0
    /\ ast.start = code.lead
    /\ ast.end < Len(SourceText(code)) - 1

(* C6 as stated: parse returns only for a struct or shader declaration; for *)
(* any other production it fails with UnsupportedConstruct instead of       *)
(* returning.                                                               *)
C6_UnsupportedConstructFails ==
    phase = "returned" => (IsStruct \/ IsShader)

(* C7: a downcast yields the node exactly when the node was built from the  *)
(* target variant's production, and is empty otherwise.                     *)
ProductionOf(T) ==
    IF T = "StructDeclaration" THEN "structDeclaration" ELSE "shaderDeclaration"

C7_DowncastExact ==
    (phase = "returned" /\ cast.target # "") =>
        IF code.kind = ProductionOf(cast.target)
        THEN cast.ptr # nullptr /\ cast.ptr = ast
        ELSE cast.ptr = nullptr

C7_Witness ==
    /\ Built /\ IsStruct
    /\ cast.target = "ShaderDeclaration"
    /\ cast.ptr = nullptr

(* C10: a declaration with a body is built, not dropped; its body slot is   *)
(* absent, and apart from the end offset the node is the one built from the *)
(* same declaration with an empty body.                                     *)
WithoutBody(p) == [p EXCEPT !.body = ""]
Header(node) == [node EXCEPT !.end = 0]

C10_BodyKeepsHeader ==
    (phase = "returned" /\ (IsStruct \/ IsShader) /\ code.body # "") =>
        /\ ast # nullptr
        /\ ast.body = nullptr
        /\ Header(ast) = Header(parse(WithoutBody(code)))
        /\ ast.end = parse(WithoutBody(code)).end + Len(code.body)

C10_Witness ==
    /\ Built /\ IsShader
    /\ code.body # "" /\ code.hasRet /\ Len(code.params) = 1
    /\ ast.body = nullptr

(* C8: builds of structurally identical trees return equal ASTs, field for  *)
(* field, whatever other builds ran before or alongside them.               *)
C8_Deterministic ==
    \A t, u \in Threads :
        (pc[t] = "done" /\ pc[u] = "done" /\ tree[t] = tree[u]) => res[t] = res[u]

C8_Witness ==
    /\ pc[1] = "done" /\ pc[2] = "done"
    /\ arg[1] = arg[2] /\ ret[1] # ret[2]
    /\ res[1].class = "ShaderDeclaration"
    /\ Len(res[1].params) = MaxParams
    /\ res[1] = res[2]

(* C9: under every interleaving each invocation returns the AST it returns  *)
(* when run alone, and no object is reachable from two invocations.         *)
Owned(t) == {decl[t], ret[t]} \ {0}

C9_Reentrant ==
    /\ \A t \in Threads : pc[t] = "done" => Deref(ret[t]) = parse(arg[t])
    /\ \A t, u \in Threads : t # u => Owned(t) \cap Owned(u) = {}
    /\ \A t \in Threads : \A a \in Owned(t) : heap[a] # Free

C9_Witness ==
    /\ pc[1] = "done" /\ pc[2] = "shader23" /\ it[2] = 2
    /\ arg[1].kind = "shaderDeclaration" /\ arg[1] # arg[2]
    /\ Deref(ret[1]) = parse(arg[1])
====
